---- MODULE Spec2Model ----
(***************************************************************************)
(* A model of writebuf-core (src/src/lib.rs): WriteBuf<N>, a fixed         *)
(* capacity byte buffer over heapless::Vec<u8, N> with a text sink         *)
(* (write_str), a strict UTF-8 read (to_str) and a lossy ASCII conversion  *)
(* (into_ascii_lossy).  The operations WriteBuf delegates to heapless and  *)
(* core (extend_from_slice, resize_default, slice indexing, String::push,  *)
(* str::from_utf8) are modelled at the lines of lib.rs that call them.     *)
(***************************************************************************)
EXTENDS Integers, Sequences, FiniteSets, TLC

\* ------------------------------------------------------------ bounds
\* The capacity: the const generic N of WriteBuf<N>.
N == 3
\* The longest text fragment handed to write_str.
MaxFrag == 2
\* The longest slice handed to extend_from_slice through DerefMut.
MaxSlice == 2

\* ------------------------------------------------- program constants
\* `if c >= 0x80` in into_ascii_lossy.
ASCII_LIMIT == 128
\* The substitute character '~'.
TILDE == 126

\* ------------------------------------------------------------ inputs
Min(a, b) == IF a <= b THEN a ELSE b

\* The byte values the inputs are drawn from: 'A', the continuation byte
\* 0x80 and the lead byte 0xC3 (0xC3 0x80 is U+00C0).  resize_default adds
\* u8::default(), 0, to the bytes a buffer can hold.
Bytes == {65, 128, 195}

SeqsUpTo(n) == UNION {[1..k -> Bytes] : k \in 0..n}

\* The characters the text inputs are made of, as code points.
Chars == {65, 192}

\* char::encode_utf8, for code points below 0x800.
encode_utf8(cp) ==
  IF cp < 128 THEN <<cp>>
  ELSE <<192 + (cp \div 64), 128 + (cp % 64)>>

\* A &str: a concatenation of encoded characters.
RECURSIVE IsText(_)
IsText(s) ==
  \/ s = <<>>
  \/ \E c \in Chars :
       LET e == encode_utf8(c) IN
         /\ Len(e) <= Len(s)
         /\ SubSeq(s, 1, Len(e)) = e
         /\ IsText(SubSeq(s, Len(e) + 1, Len(s)))

\* The arguments of write_str: every &str of at most MaxFrag bytes.
Texts == {s \in SeqsUpTo(MaxFrag) : IsText(s)}
\* The arguments of From::from: any bytes, up to one more than the capacity.
Sources == SeqsUpTo(N + 1)
\* The arguments of extend_from_slice.
Slices == SeqsUpTo(MaxSlice)

\* ------------------------------------------------- heapless and core
\* heapless::Vec::extend_from_slice: all or nothing against the capacity.
extend_from_slice(buf, data) ==
  IF Len(buf) + Len(data) > N
    THEN [buf |-> buf, res |-> "Err"]
    ELSE [buf |-> buf \o data, res |-> "Ok"]

\* heapless::Vec::resize_default(new_len): Err beyond the capacity, else
\* pad with u8::default() or truncate.
resize_default(buf, n) ==
  IF n > N
    THEN [buf |-> buf, res |-> "Err"]
    ELSE IF n > Len(buf)
      THEN [buf |-> buf \o [i \in 1..(n - Len(buf)) |-> 0], res |-> "Ok"]
      ELSE [buf |-> SubSeq(buf, 1, n), res |-> "Ok"]

\* The bounds check of slice indexing buf[i] (i counted from 0).
index_in_bounds_inclusive(buf, i) == i <= Len(buf)

index_in_bounds(buf, i) == i < Len(buf)

\* buf[i] = b through DerefMut: a panic out of bounds.
index_set(buf, i, b) ==
  IF index_in_bounds(buf, i)
    THEN [buf |-> [buf EXCEPT ![i + 1] = b], panic |-> FALSE]
    ELSE [buf |-> buf, panic |-> TRUE]

\* heapless::String::push(c): Err (nothing pushed) when the encoded
\* character does not fit.
push(s, cp) ==
  LET e == encode_utf8(cp) IN
    IF Len(s) + Len(e) > N THEN s ELSE s \o e

\* core::str::from_utf8's validation: the width of a character from its
\* first byte, then the ranges of the bytes that follow.
utf8_char_width(b) ==
  IF b < 128 THEN 1
  ELSE IF b >= 194 /\ b <= 223 THEN 2
  ELSE IF b >= 224 /\ b <= 239 THEN 3
  ELSE IF b >= 240 /\ b <= 244 THEN 4
  ELSE 0

IsCont(b) == b >= 128 /\ b <= 191

RECURSIVE run_utf8_validation(_, _)
run_utf8_validation(v, i) ==
  IF i > Len(v) THEN TRUE
  ELSE LET first == v[i]
           w == utf8_char_width(first)
       IN
    IF w = 0 \/ i + w - 1 > Len(v) THEN FALSE
    ELSE IF w = 1 THEN run_utf8_validation(v, i + 1)
    ELSE IF w = 2 THEN IsCont(v[i + 1]) /\ run_utf8_validation(v, i + 2)
    ELSE IF w = 3 THEN
      /\ \/ first = 224 /\ v[i + 1] >= 160 /\ v[i + 1] <= 191
         \/ first >= 225 /\ first <= 236 /\ IsCont(v[i + 1])
         \/ first = 237 /\ v[i + 1] >= 128 /\ v[i + 1] <= 159
         \/ first >= 238 /\ first <= 239 /\ IsCont(v[i + 1])
      /\ IsCont(v[i + 2])
      /\ run_utf8_validation(v, i + 3)
    ELSE
      /\ \/ first = 240 /\ v[i + 1] >= 144 /\ v[i + 1] <= 191
         \/ first >= 241 /\ first <= 243 /\ IsCont(v[i + 1])
         \/ first = 244 /\ v[i + 1] >= 128 /\ v[i + 1] <= 143
      /\ IsCont(v[i + 2])
      /\ IsCont(v[i + 3])
      /\ run_utf8_validation(v, i + 4)

\* ------------------------------------------------------------ WriteBuf
\* WriteBuf::to_str: the bytes as text, or Err(()).
to_str_ascii_only(buf) ==
  IF \A i \in 1..Len(buf) : buf[i] < 128
    THEN [res |-> "Ok", text |-> buf]
    ELSE [res |-> "Err", text |-> <<>>]

to_str(buf) ==
  IF run_utf8_validation(buf, 1)
    THEN [res |-> "Ok", text |-> buf]
    ELSE [res |-> "Err", text |-> <<>>]

\* WriteBuf::into_ascii_lossy: the loop over the bytes, pushing into a
\* String<N>; a failed push is dropped by .ok().
RECURSIVE lossy_loop_no_replace(_, _, _)
lossy_loop_no_replace(buf, i, s) ==
  IF i > Len(buf) THEN s
  ELSE lossy_loop_no_replace(buf, i + 1, push(s, buf[i]))

RECURSIVE lossy_loop_off_by_one(_, _, _)
lossy_loop_off_by_one(buf, i, s) ==
  IF i > Len(buf) THEN s
  ELSE lossy_loop_off_by_one(buf, i + 1,
         IF buf[i] > ASCII_LIMIT THEN push(s, TILDE) ELSE push(s, buf[i]))

RECURSIVE lossy_loop(_, _, _)
lossy_loop(buf, i, s) ==
  IF i > Len(buf) THEN s
  ELSE lossy_loop(buf, i + 1,
         IF buf[i] >= ASCII_LIMIT THEN push(s, TILDE) ELSE push(s, buf[i]))

into_ascii_lossy_no_replace(buf) == lossy_loop_no_replace(buf, 1, <<>>)

into_ascii_lossy_off_by_one(buf) == lossy_loop_off_by_one(buf, 1, <<>>)

into_ascii_lossy(buf) == lossy_loop(buf, 1, <<>>)

\* From::from: extend the empty buffer with the first min(len, N) bytes;
\* the Result is dropped by .ok().
from_no_min(data) == extend_from_slice(<<>>, data).buf

from(data) ==
  extend_from_slice(<<>>, SubSeq(data, 1, Min(Len(data), N))).buf

\* uWrite::write_str (and fmt::Write::write_str): heapless's write_str of
\* the Vec, which is extend_from_slice of the text's bytes.
write_str_partial(buf, s) ==
  IF Len(buf) + Len(s) > N
    THEN [buf |-> buf \o SubSeq(s, 1, N - Len(buf)), res |-> "Err"]
    ELSE [buf |-> buf \o s, res |-> "Ok"]

write_str_truncate(buf, s) ==
  [buf |-> buf \o SubSeq(s, 1, Min(Len(s), N - Len(buf))), res |-> "Ok"]

write_str_unchecked(buf, s) == [buf |-> buf \o s, res |-> "Ok"]

write_str_swallow(buf, s) ==
  [buf |-> extend_from_slice(buf, s).buf, res |-> "Ok"]

write_str(buf, s) == extend_from_slice(buf, s)

\* -------------------------------------------------------------- state
VARIABLES
  buffer,   \* WriteBuf.buffer: the bytes held (its length is Len(buffer))
  status,   \* "live", "consumed" (moved into into_ascii_lossy) or "panicked"
  op,       \* the operation that ran last
  arg,      \* its argument
  res,      \* its result: "Ok" or "Err"
  ret,      \* the text it returned (to_str's view, into_ascii_lossy's String)
  pre,      \* the buffer's bytes before it
  prev,     \* before a read (to_str, into_ascii_lossy): the operation before it
  base,     \* the bytes at construction, or after the last DerefMut mutation
  written,  \* the fragments write_str accepted since, concatenated
  wphase,   \* write_str results since: 2 two accepted, 3 then one refused, 4 then one accepted
  clean     \* built by new() or from(text within capacity), only write_str since

vars == <<buffer, status, op, arg, res, ret, pre, prev, base, written, wphase, clean>>

NoPrev == [op |-> "none", arg |-> <<>>, res |-> "Ok", ret |-> <<>>]

Last == [op |-> op, arg |-> arg, res |-> res, ret |-> ret]

\* WriteBuf::new(): the empty buffer.
New ==
  /\ buffer = <<>>
  /\ op = "new"
  /\ arg = <<>>
  /\ base = <<>>
  /\ clean = TRUE

\* WriteBuf::from(data): no Result, the buffer is what from leaves.
From(data) ==
  /\ buffer = from(data)
  /\ op = "from"
  /\ arg = data
  /\ base = buffer
  /\ clean = (IsText(data) /\ Len(data) <= N)

\* The state after construction, by new() or by from(data).
Init ==
  /\ New \/ \E data \in Sources : From(data)
  /\ status = "live"
  /\ res = "Ok"
  /\ ret = <<>>
  /\ pre = <<>>
  /\ prev = NoPrev
  /\ written = <<>>
  /\ wphase = 0

\* The next value of wphase after a write_str that returned r.
NextPhase(p, r) ==
  IF r = "Ok"
    THEN (IF p = 3 THEN 4 ELSE IF p < 2 THEN p + 1 ELSE p)
    ELSE (IF p = 2 THEN 3 ELSE p)

\* buf.write_str(s), also what uwrite!/write! call once per piece.
WriteStr(s) ==
  /\ status = "live"
  /\ LET r == write_str(buffer, s) IN
       /\ buffer' = r.buf
       /\ res' = r.res
       /\ written' = (IF r.res = "Ok" THEN written \o s ELSE written)
       /\ wphase' = NextPhase(wphase, r.res)
  /\ op' = "write_str"
  /\ arg' = s
  /\ ret' = <<>>
  /\ pre' = buffer
  /\ prev' = NoPrev
  /\ UNCHANGED <<status, base, clean>>

\* buf.extend_from_slice(data), reached through DerefMut.
ExtendFromSlice(data) ==
  /\ status = "live"
  /\ LET r == extend_from_slice(buffer, data) IN
       /\ buffer' = r.buf
       /\ res' = r.res
  /\ op' = "extend_from_slice"
  /\ arg' = data
  /\ ret' = <<>>
  /\ pre' = buffer
  /\ prev' = NoPrev
  /\ base' = buffer'
  /\ written' = <<>>
  /\ wphase' = 0
  /\ clean' = FALSE
  /\ UNCHANGED status

\* buf.resize_default(n), reached through DerefMut.
ResizeDefault(n) ==
  /\ status = "live"
  /\ LET r == resize_default(buffer, n) IN
       /\ buffer' = r.buf
       /\ res' = r.res
  /\ op' = "resize_default"
  /\ arg' = <<n>>
  /\ ret' = <<>>
  /\ pre' = buffer
  /\ prev' = NoPrev
  /\ base' = buffer'
  /\ written' = <<>>
  /\ wphase' = 0
  /\ clean' = FALSE
  /\ UNCHANGED status

\* buf[i] = b, reached through DerefMut.
IndexSet(i, b) ==
  /\ status = "live"
  /\ LET r == index_set(buffer, i, b) IN
       /\ buffer' = r.buf
       /\ status' = (IF r.panic THEN "panicked" ELSE "live")
  /\ op' = "index_set"
  /\ arg' = <<i, b>>
  /\ res' = "Ok"
  /\ ret' = <<>>
  /\ pre' = buffer
  /\ prev' = NoPrev
  /\ base' = buffer'
  /\ written' = <<>>
  /\ wphase' = 0
  /\ clean' = FALSE

\* buf.to_str(): &self, the buffer is only read.
ToStrRepairing ==
  /\ status = "live"
  /\ LET r == to_str(buffer) IN
       /\ res' = r.res
       /\ ret' = r.text
       /\ buffer' = (IF r.res = "Ok" THEN buffer ELSE <<>>)
  /\ op' = "to_str"
  /\ arg' = <<>>
  /\ pre' = buffer
  /\ prev' = Last
  /\ UNCHANGED <<status, base, written, wphase, clean>>

ToStr ==
  /\ status = "live"
  /\ LET r == to_str(buffer) IN
       /\ res' = r.res
       /\ ret' = r.text
  /\ op' = "to_str"
  /\ arg' = <<>>
  /\ pre' = buffer
  /\ prev' = Last
  /\ UNCHANGED <<buffer, status, base, written, wphase, clean>>

\* buf.into_ascii_lossy(): self is moved, the String<N> is what remains.
IntoAsciiLossy ==
  /\ status = "live"
  /\ ret' = into_ascii_lossy(buffer)
  /\ status' = "consumed"
  /\ op' = "into_ascii_lossy"
  /\ arg' = <<>>
  /\ res' = "Ok"
  /\ pre' = buffer
  /\ prev' = Last
  /\ UNCHANGED <<buffer, base, written, wphase, clean>>

Next ==
  \/ \E s \in Texts : WriteStr(s)
  \/ \E data \in Slices : ExtendFromSlice(data)
  \/ \E n \in 0..(N + 1) : ResizeDefault(n)
  \/ \E i \in 0..N, b \in Bytes : IndexSet(i, b)
  \/ ToStr
  \/ IntoAsciiLossy

Spec == Init /\ [][Next]_vars

\* ------------------------------------------------------------- claims
IsAscii(b) == b < ASCII_LIMIT

AllAscii(s) == \A i \in 1..Len(s) : IsAscii(s[i])

Overflows == Len(pre) + Len(arg) > N

\* C1: write_str(F) on a buffer holding L bytes is all or nothing: when
\* L + len(F) <= N it returns Ok and the content is the old content followed
\* by F; when L + len(F) > N it returns Err and the content is unchanged,
\* no prefix of F committed.
C1_WriteStrAllOrNothing ==
  op = "write_str" =>
    IF Overflows
      THEN res = "Err" /\ buffer = pre
      ELSE /\ res = "Ok"
           /\ buffer = pre \o arg
           /\ Len(buffer) = Len(pre) + Len(arg)

\* A refused write of which a proper prefix would have fitted.
C1_Witness ==
  /\ op = "write_str"
  /\ res = "Err"
  /\ pre # <<>>
  /\ Len(pre) < N
  /\ buffer = pre

\* C2: in every state reached from new() or from(S) by write_str,
\* extend_from_slice, resize_default and indexed assignment, the length is
\* at most the capacity N.
C2_LenWithinCapacity == Len(buffer) <= N

\* A full buffer that has just refused to grow.
C2_Witness ==
  /\ Len(buffer) = N
  /\ op \in {"write_str", "extend_from_slice", "resize_default"}
  /\ res = "Err"

\* C3: from(S) signals no error and holds exactly the first min(len(S), N)
\* bytes of S; when len(S) > N that is the first N bytes, a full buffer.
C3_FromTruncates ==
  op = "from" =>
    /\ status = "live"
    /\ res = "Ok"
    /\ Len(buffer) = Min(Len(arg), N)
    /\ \A i \in 1..Len(buffer) : buffer[i] = arg[i]
    /\ (Len(arg) > N => Len(buffer) = N)

\* A source longer than the capacity, cut to N bytes.
C3_Witness ==
  /\ op = "from"
  /\ Len(arg) > N
  /\ Len(buffer) = N
  /\ \A i \in 1..N : buffer[i] = arg[i]

\* C4: after any sequence of write_str calls the content is the initial
\* content followed by the fragments whose call returned Ok, in call order;
\* each call is judged alone against the remaining capacity, so a call can
\* fail after earlier ones succeeded and a later one that fits succeeds.
C4_ContentIsAcceptedFragments ==
  /\ buffer = base \o written
  /\ op = "write_str" => (res = "Ok" <=> ~Overflows)

\* Two accepted writes, then a refused one, then an accepted one.
C4_Witness ==
  /\ op = "write_str"
  /\ res = "Ok"
  /\ wphase = 4
  /\ arg # <<>>
  /\ Len(written) >= 2
  /\ buffer = base \o written

\* C5: into_ascii_lossy is total and byte-wise: for content of length L it
\* returns L characters, the i-th being byte i when that byte is < 0x80 and
\* '~' otherwise; no push fails, no byte is dropped.
C5_LossyIsBytewise ==
  op = "into_ascii_lossy" =>
    /\ Len(ret) = Len(pre)
    /\ \A i \in 1..Len(pre) :
         ret[i] = (IF pre[i] < 128 THEN pre[i] ELSE 126)

\* A full buffer that is not UTF-8, holding both kinds of byte, converted.
C5_Witness ==
  /\ op = "into_ascii_lossy"
  /\ Len(pre) = N
  /\ ~run_utf8_validation(pre, 1)
  /\ \E i \in 1..Len(pre) : pre[i] >= 128
  /\ \E i \in 1..Len(pre) : pre[i] < 128
  /\ Len(ret) = N

\* C6 as stated: no operation panics in any reachable state, indexing
\* through Deref/DerefMut included.
C6_NeverPanics == status # "panicked"

\* C6 as amended: of new, from, write_str, to_str, into_ascii_lossy,
\* extend_from_slice, resize_default and the indexed assignment buf[i] = b,
\* only the indexed assignment panics, and exactly when i >= len; every other
\* failure is a returned Err.
C6_PanicsOnlyIndexingOutOfBounds ==
  (status = "panicked") <=> (op = "index_set" /\ arg[1] >= Len(pre))

\* A resize beyond the capacity, reported as Err with the buffer still usable.
C6_Witness ==
  /\ op = "resize_default"
  /\ arg[1] > N
  /\ res = "Err"
  /\ status = "live"
  /\ buffer = pre

\* C7: to_str is a pure read: it leaves the content and length as they
\* were, whether it returns text or the decode error, and a second call
\* right after the first returns the same result.
C7_ToStrIsPureRead ==
  op = "to_str" =>
    /\ buffer = pre
    /\ status = "live"
    /\ buffer = base \o written
    /\ prev.op = "to_str" => (res = prev.res /\ ret = prev.ret)

\* The decode error, returned a second time in a row.
C7_Witness ==
  /\ op = "to_str"
  /\ prev.op = "to_str"
  /\ res = "Err"
  /\ prev.res = "Err"
  /\ buffer # <<>>
  /\ buffer = pre

\* C8: for S valid UTF-8 with len(S) <= N, from(S).to_str() returns Ok(S).
C8_RoundTrip ==
  (op = "to_str" /\ prev.op = "from" /\ Len(prev.arg) <= N /\ IsText(prev.arg))
    => (res = "Ok" /\ ret = prev.arg)

\* A text that fills the buffer and holds a two-byte character, read back.
C8_Witness ==
  /\ op = "to_str"
  /\ prev.op = "from"
  /\ IsText(prev.arg)
  /\ Len(prev.arg) = N
  /\ \E i \in 1..Len(prev.arg) : prev.arg[i] >= 128
  /\ res = "Ok"
  /\ ret = prev.arg

\* C9: from new() or from(S) with S valid UTF-8 and len(S) <= N, after any
\* write_str calls, accepted or refused, the content is valid UTF-8 and
\* to_str succeeds; whereas some valid S with len(S) > N is cut by from
\* inside a character, and to_str then returns the decode error.
C9_WritesKeepUtf8TruncationDoesNot ==
  /\ clean =>
       /\ IsText(buffer)
       /\ to_str(buffer).res = "Ok"
       /\ op = "to_str" => res = "Ok"
  /\ \E S \in Sources :
       /\ IsText(S)
       /\ Len(S) > N
       /\ to_str(from(S)).res = "Err"

\* A read that succeeds after two accepted writes and a refused one, on
\* content holding a two-byte character.
C9_Witness ==
  /\ clean
  /\ op = "to_str"
  /\ res = "Ok"
  /\ wphase >= 3
  /\ \E i \in 1..Len(buffer) : buffer[i] >= 128

\* C10: every byte into_ascii_lossy returns is < 0x80; on a buffer whose
\* bytes are all < 0x80, to_str succeeds and into_ascii_lossy returns the
\* same text; otherwise the output differs from the content exactly at the
\* bytes >= 0x80.
C10_ReadPathsAgreeOnAscii ==
  op = "into_ascii_lossy" =>
    /\ AllAscii(ret)
    /\ AllAscii(pre) =>
         /\ to_str(pre).res = "Ok"
         /\ to_str(pre).text = ret
         /\ prev.op = "to_str" => (prev.res = "Ok" /\ prev.ret = ret)
    /\ Len(ret) = Len(pre)
    /\ \A i \in 1..Len(pre) : (ret[i] # pre[i]) <=> ~IsAscii(pre[i])

\* An ASCII buffer read by to_str and then converted, to the same text.
C10_Witness ==
  /\ op = "into_ascii_lossy"
  /\ prev.op = "to_str"
  /\ prev.res = "Ok"
  /\ AllAscii(pre)
  /\ Len(pre) = N
  /\ ret = prev.ret
  /\ ret = pre

====
